---- MODULE Spec2Model ----
(***************************************************************************)
(* Authentication subsystem of kinotedev/back-end: register, verify-email, *)
(* login, forgot-password, reset-password and the request gate             *)
(* (middleware), over an account store and a clock.                        *)
(*                                                                         *)
(* Strings are sequences of one-character strings, so that split,          *)
(* startsWith, substring, toLowerCase and trim are computed as the code    *)
(* computes them.  Time is counted in hours.                               *)
(***************************************************************************)
EXTENDS Integers, Sequences, FiniteSets, TLC

VARIABLES
    db,        \* the User table: sequence of account records, in creation order
    now,       \* the clock (hours)
    ticks,     \* number of clock advances so far (bounds the clock)
    issued,    \* opaque random tokens generated so far (randomBytes never repeats)
    consumed,  \* token -> number of success responses of verify-email/reset-password for it
    history,   \* what the clients saw: the password each email was last given, and
               \* the email each token was mailed to
    last,      \* the latest request to an auth route: [op, body, at]
    resp,      \* the response to the latest request to an auth route
    mail,      \* the notification attempted by the latest request
    gate,      \* the latest request that reached the middleware, and what became of it
    pc,        \* concurrent requests: position of each request process
    preq,      \* concurrent requests: the parsed input of each process
    puser,     \* concurrent requests: the user row each process read
    presp      \* concurrent requests: the response of each process

vars == <<db, now, ticks, issued, consumed, history, last, resp, mail, gate, pc, preq, puser, presp>>

-----------------------------------------------------------------------------
(* Bounds of the model *)

MaxAccounts == 2
MaxTokens == 2
MaxTicks == 1

-----------------------------------------------------------------------------
(* Values *)

Null == <<"<null>">>            \* null where a string is expected
Absent == <<"<absent>">>        \* undefined: the field is not in the JSON body
NullTime == 0 - 1               \* null where a Date is expected
NullObj == [null |-> TRUE]      \* null where an object is expected
BadJson == [badJson |-> TRUE]   \* a request body req.json() cannot parse

UpperChars == {"A", "B", "P", "S", "X"}
LowerChars == {"a", "b", "c", "d", "e", "i", "p", "r", "s", "t", "u", "w", "x"}
DigitChars == {"0", "1", "2", "3", "4", "5", "6", "7", "8", "9"}

\* String.prototype.toLowerCase on one character
LowerChar(c) ==
    CASE c = "A" -> "a"
      [] c = "B" -> "b"
      [] c = "P" -> "p"
      [] c = "S" -> "s"
      [] c = "X" -> "x"
      [] OTHER -> c

ToLowerCase(s) == [i \in 1..Len(s) |-> LowerChar(s[i])]

RECURSIVE Trim(_)
Trim(s) ==
    IF s = <<>> THEN s
    ELSE IF Head(s) = " " THEN Trim(Tail(s))
    ELSE IF s[Len(s)] = " " THEN Trim(SubSeq(s, 1, Len(s) - 1))
    ELSE s

StartsWith(s, prefix) ==
    /\ Len(s) >= Len(prefix)
    /\ SubSeq(s, 1, Len(prefix)) = prefix

\* String.prototype.substring(n): the characters from index n (0-based) on
Substring(s, n) == SubSeq(s, n + 1, Len(s))

\* String.prototype.split(sep) for a one-character separator
RECURSIVE Split(_, _)
Split(s, sep) ==
    IF \A i \in 1..Len(s) : s[i] # sep THEN <<s>>
    ELSE LET k == CHOOSE i \in 1..Len(s) : s[i] = sep /\ \A j \in 1..(i - 1) : s[j] # sep
         IN  <<SubSeq(s, 1, k - 1)>> \o Split(SubSeq(s, k + 1, Len(s)), sep)

\* Number -> decimal string, as the template literal prints Date.now()
RECURSIVE ToDigits(_)
ToDigits(n) ==
    LET d == <<"0", "1", "2", "3", "4", "5", "6", "7", "8", "9">>[(n % 10) + 1]
    IN  IF n < 10 THEN <<d>> ELSE ToDigits(n \div 10) \o <<d>>

-----------------------------------------------------------------------------
(* Program constants *)

MIN_PASSWORD_LENGTH == 8
MAX_PASSWORD_LENGTH == 128
VERIFICATION_HOURS == 24
RESET_HOURS == 1
SESSION_DAYS == 7

PASSWORD_SALT == <<"s">>

-----------------------------------------------------------------------------
(* lib/validators.ts *)

IsString(v) == v # Absent /\ v # Null

\* z.string().email(): one "@" with a non-empty local part and domain, no blanks
IsEmail(s) ==
    /\ Cardinality({i \in 1..Len(s) : s[i] = "@"}) = 1
    /\ s[1] # "@"
    /\ s[Len(s)] # "@"
    /\ \A i \in 1..Len(s) : s[i] # " "

\* the email field of registerSchema, loginSchema and passwordResetSchema:
\* the format check runs on the raw input, then toLowerCase, then trim
EmailErrors(v) ==
    IF ~IsString(v) THEN {<<"email", "Required">>}
    ELSE IF ~IsEmail(v) THEN {<<"email", "Invalid email format">>}
    ELSE {}

\* mutant: the schema trims but does not lower-case
NormalizeEmail_KeepsCase(v) == Trim(v)

NormalizeEmail(v) == Trim(ToLowerCase(v))

\* the password field of registerSchema and resetPasswordSchema
StrongPasswordErrors(v) ==
    IF ~IsString(v) THEN {<<"password", "Required">>}
    ELSE
      {<<"password", "Password must be at least 8 characters">> : x \in
          {y \in {1} : Len(v) < MIN_PASSWORD_LENGTH}}
      \cup {<<"password", "Password must not exceed 128 characters">> : x \in
          {y \in {1} : Len(v) > MAX_PASSWORD_LENGTH}}
      \cup {<<"password", "Password must contain at least one uppercase letter">> : x \in
          {y \in {1} : \A i \in 1..Len(v) : v[i] \notin UpperChars}}
      \cup {<<"password", "Password must contain at least one lowercase letter">> : x \in
          {y \in {1} : \A i \in 1..Len(v) : v[i] \notin LowerChars}}
      \cup {<<"password", "Password must contain at least one number">> : x \in
          {y \in {1} : \A i \in 1..Len(v) : v[i] \notin DigitChars}}

\* z.string().min(1, msg)
NonEmptyErrors(field, v, msg) ==
    IF ~IsString(v) THEN {<<field, "Required">>}
    ELSE IF Len(v) < 1 THEN {<<field, msg>>}
    ELSE {}

\* fullName is optional: 2..100 characters when present
FullNameErrors(v) ==
    IF v = Absent THEN {}
    ELSE IF v = Null THEN {<<"fullName", "Expected string">>}
    ELSE IF Len(v) < 2 THEN {<<"fullName", "Full name must be at least 2 characters">>}
    ELSE IF Len(v) > 100 THEN {<<"fullName", "Full name must not exceed 100 characters">>}
    ELSE {}

\* schema.safeParse(body): [success, errors] and, on success, the parsed data
registerSchema(body) ==
    LET errs == EmailErrors(body.email) \cup StrongPasswordErrors(body.password)
                  \cup FullNameErrors(body.fullName)
    IN  IF errs # {} THEN [success |-> FALSE, errors |-> errs]
        ELSE [success |-> TRUE, errors |-> {},
              data |-> [email |-> NormalizeEmail(body.email),
                        password |-> body.password,
                        fullName |-> body.fullName]]

loginSchema(body) ==
    LET errs == EmailErrors(body.email)
                  \cup NonEmptyErrors("password", body.password, "Password is required")
    IN  IF errs # {} THEN [success |-> FALSE, errors |-> errs]
        ELSE [success |-> TRUE, errors |-> {},
              data |-> [email |-> NormalizeEmail(body.email), password |-> body.password]]

passwordResetSchema(body) ==
    LET errs == EmailErrors(body.email)
    IN  IF errs # {} THEN [success |-> FALSE, errors |-> errs]
        ELSE [success |-> TRUE, errors |-> {},
              data |-> [email |-> NormalizeEmail(body.email)]]

resetPasswordSchema(body) ==
    LET errs == NonEmptyErrors("token", body.token, "Token is required")
                  \cup StrongPasswordErrors(body.password)
    IN  IF errs # {} THEN [success |-> FALSE, errors |-> errs]
        ELSE [success |-> TRUE, errors |-> {},
              data |-> [token |-> body.token, password |-> body.password]]

emailVerificationSchema(body) ==
    LET errs == NonEmptyErrors("token", body.token, "Verification token is required")
    IN  IF errs # {} THEN [success |-> FALSE, errors |-> errs]
        ELSE [success |-> TRUE, errors |-> {}, data |-> [token |-> body.token]]

-----------------------------------------------------------------------------
(* lib/api-response.ts *)

successResponse(data, message, status) ==
    [status |-> status,
     body |-> [success |-> TRUE, message |-> message, data |-> data]]

errorResponse(error, status) ==
    [status |-> status,
     body |-> [success |-> FALSE, message |-> error, error |-> error]]

validationErrorResponse(errors) ==
    [status |-> 400,
     body |-> [success |-> FALSE, message |-> "Validation error",
               error |-> "Invalid request data", details |-> errors]]

unauthorizedResponse(message) == errorResponse(message, 401)

notFoundResponse(message) == errorResponse(message, 404)

conflictResponse(message) == errorResponse(message, 409)

internalErrorResponse == errorResponse("Internal server error", 500)

-----------------------------------------------------------------------------
(* lib/auth.ts *)

\* `${userId}_${randomPart}_${timestamp}`
generateToken(userId, randomPart, timestamp) ==
    userId \o <<"_">> \o randomPart \o <<"_">> \o ToDigits(timestamp)

\* { userId } or null
verifyToken(token) ==
    IF token = <<>> THEN NullObj
    ELSE LET parts == Split(token, "_")
         IN  IF Len(parts) # 3 THEN NullObj
             ELSE IF parts[1] = <<>> THEN NullObj
             ELSE [userId |-> parts[1]]

getTokenExpirationTime(clock, hours) == clock + hours

\* mutant: a token is already expired at its expiry instant
isTokenExpired_AtExpiry(clock, expirationTime) ==
    IF expirationTime = NullTime THEN TRUE ELSE clock >= expirationTime

\* mutant: only a missing expiry counts as expired
isTokenExpired_NullOnly(clock, expirationTime) == expirationTime = NullTime

isTokenExpired(clock, expirationTime) ==
    IF expirationTime = NullTime THEN TRUE ELSE clock > expirationTime

\* createHash('sha256').update(password + process.env.PASSWORD_SALT || 'salt').digest('hex')
HashPassword(password) ==
    LET salted == password \o PASSWORD_SALT
    IN  <<"sha256", IF salted = <<>> THEN <<"s", "a", "l", "t">> ELSE salted>>

\* randomBytes(32).toString('hex'): an unguessable value that repeats none of the
\* values produced before.  The handlers only compare tokens for equality, so
\* the k-th value produced is named by the hex string of k.
Tokens == {ToDigits(i) : i \in 1..MaxTokens}
generateRandomToken(used) == {t \in Tokens : t = ToDigits(Cardinality(used) + 1)}

\* randomBytes(16).toString('hex') of a session token
RandomParts == {<<"c">>, <<"d">>}

\* the routes that require authentication
protectedRoutes ==
    { <<"/", "a", "p", "i", "/", "u", "s", "e", "r">>,
      <<"/", "a", "p", "i", "/", "t", "o", "d", "o">>,
      <<"/", "a", "p", "i", "/", "c", "a", "l", "e", "n", "d", "a", "r">>,
      <<"/", "a", "p", "i", "/", "a", "c", "t", "i", "v", "i", "t", "y">>,
      <<"/", "a", "p", "i", "/", "s", "t", "r", "e", "a", "k">>,
      <<"/", "a", "p", "i", "/", "a", "i">> }

BearerPrefix == <<"B", "e", "a", "r", "e", "r", " ">>
BEARER_PREFIX_LENGTH == 7

-----------------------------------------------------------------------------
(* The account store (prisma.user) *)

IdOf(n) == <<"u">> \o ToDigits(n)

Rows(d) == {d[i] : i \in 1..Len(d)}

\* mutant: the lookup ignores the email and returns the first account
FindByEmail_FirstRow(d, email) == IF d = <<>> THEN NullObj ELSE d[1]

FindByEmail(d, email) ==
    IF \E u \in Rows(d) : u.email = email
    THEN CHOOSE u \in Rows(d) : u.email = email
    ELSE NullObj

FindByVerificationToken(d, token) ==
    IF \E u \in Rows(d) : u.emailVerificationToken = token
    THEN CHOOSE u \in Rows(d) : u.emailVerificationToken = token
    ELSE NullObj

FindByResetToken(d, token) ==
    IF \E u \in Rows(d) : u.passwordResetToken = token
    THEN CHOOSE u \in Rows(d) : u.passwordResetToken = token
    ELSE NullObj

\* the columns register's create does not write: the defaults of the User table
CreateDefaults ==
    [isEmailVerified |-> FALSE,
     twoFactorEnabled |-> FALSE,
     passwordResetToken |-> Null,
     passwordResetExpires |-> NullTime]

\* prisma.user.create of register: the row it inserts
NewUser(d, clock, data) ==
    [id |-> IdOf(Len(d) + 1),
     email |-> data.email,
     password |-> data.password,
     name |-> data.name,
     isEmailVerified |-> CreateDefaults.isEmailVerified,
     twoFactorEnabled |-> CreateDefaults.twoFactorEnabled,
     emailVerificationToken |-> data.emailVerificationToken,
     emailVerificationExpires |-> data.emailVerificationExpires,
     passwordResetToken |-> CreateDefaults.passwordResetToken,
     passwordResetExpires |-> CreateDefaults.passwordResetExpires,
     createdAt |-> clock]

\* mutant: only the email column is unique
CreateViolatesUnique_EmailOnly(d, row) == \E u \in Rows(d) : u.email = row.email

\* the unique constraints of the User table
CreateViolatesUnique(d, row) ==
    \E u \in Rows(d) :
        \/ u.email = row.email
        \/ u.emailVerificationToken # Null /\ u.emailVerificationToken = row.emailVerificationToken

\* the unique constraint on passwordResetToken, as an update meets it
UpdateViolatesUnique(d, id, token) ==
    \E u \in Rows(d) : u.id # id /\ token # Null /\ u.passwordResetToken = token

\* mutant: verify-email clears the token but does not set the flag
MarkVerified_TokenOnly(d, id) ==
    [i \in 1..Len(d) |->
        IF d[i].id = id
        THEN [d[i] EXCEPT !.emailVerificationToken = Null,
                          !.emailVerificationExpires = NullTime]
        ELSE d[i]]

\* mutant: verify-email sets the flag but leaves the token stored
MarkVerified_KeepsToken(d, id) ==
    [i \in 1..Len(d) |->
        IF d[i].id = id THEN [d[i] EXCEPT !.isEmailVerified = TRUE] ELSE d[i]]

\* prisma.user.update({where: {id}, data}) for each handler's data
MarkVerified(d, id) ==
    [i \in 1..Len(d) |->
        IF d[i].id = id
        THEN [d[i] EXCEPT !.isEmailVerified = TRUE,
                          !.emailVerificationToken = Null,
                          !.emailVerificationExpires = NullTime]
        ELSE d[i]]

\* mutant: forgot-password also replaces the password by the token
StoreResetToken_ResetsPassword(d, id, token, expires) ==
    [i \in 1..Len(d) |->
        IF d[i].id = id
        THEN [d[i] EXCEPT !.passwordResetToken = token,
                          !.passwordResetExpires = expires,
                          !.password = HashPassword(token)]
        ELSE d[i]]

\* mutant: forgot-password stores the token without its expiry
StoreResetToken_NoExpiry(d, id, token, expires) ==
    [i \in 1..Len(d) |->
        IF d[i].id = id THEN [d[i] EXCEPT !.passwordResetToken = token] ELSE d[i]]

StoreResetToken(d, id, token, expires) ==
    [i \in 1..Len(d) |->
        IF d[i].id = id
        THEN [d[i] EXCEPT !.passwordResetToken = token,
                          !.passwordResetExpires = expires]
        ELSE d[i]]

\* mutant: reset-password also asks for a new email verification
SetPassword_Unverifies(d, id, hashed) ==
    [i \in 1..Len(d) |->
        IF d[i].id = id
        THEN [d[i] EXCEPT !.password = hashed,
                          !.passwordResetToken = Null,
                          !.passwordResetExpires = NullTime,
                          !.isEmailVerified = FALSE]
        ELSE d[i]]

SetPassword(d, id, hashed) ==
    [i \in 1..Len(d) |->
        IF d[i].id = id
        THEN [d[i] EXCEPT !.password = hashed,
                          !.passwordResetToken = Null,
                          !.passwordResetExpires = NullTime]
        ELSE d[i]]

-----------------------------------------------------------------------------
(* State after start-up *)

Procs == {1, 2}

NoResponse == [status |-> 0, body |-> NullObj]
NoMail == [kind |-> "none"]
NoRequest == [op |-> "none", body |-> NullObj, at |-> 0]
NoGate == [request |-> NullObj, at |-> 0, result |-> NullObj]

Init ==
    /\ db = <<>>
    /\ now = 0
    /\ ticks = 0
    /\ issued = {}
    /\ consumed = [t \in Tokens |-> 0]
    /\ history = [secret |-> {}, owner |-> {}]
    /\ last = NoRequest
    /\ resp = NoResponse
    /\ mail = NoMail
    /\ gate = NoGate
    /\ pc = [p \in Procs |-> "idle"]
    /\ preq = [p \in Procs |-> NoRequest]
    /\ puser = [p \in Procs |-> NullObj]
    /\ presp = [p \in Procs |-> NoResponse]

procVars == <<pc, preq, puser, presp>>

-----------------------------------------------------------------------------
(* What the clients observe *)

\* the ledger of success responses per token
Consume(ledger, body, response) ==
    IF response.status = 200 THEN [ledger EXCEPT ![body.token] = @ + 1] ELSE ledger

\* finite maps as sets of <<key, value>> pairs
Put(map, key, value) == {kv \in map : kv[1] # key} \cup {<<key, value>>}
Has(map, key) == \E kv \in map : kv[1] = key
Get(map, key) == (CHOOSE kv \in map : kv[1] = key)[2]

\* what a client learns from one request: the response and the mail it was sent
Observe(h, request, response, notification) ==
    IF request.op = "register" /\ response.status = 201
    THEN [secret |-> Put(h.secret, response.body.data.user.email, request.body.password),
          owner |-> Put(h.owner, notification.token, notification.to)]
    ELSE IF request.op = "forgotPassword" /\ notification # NoMail
    THEN [h EXCEPT !.owner = Put(h.owner, notification.token, notification.to)]
    ELSE IF request.op = "resetPassword" /\ response.status = 200
                /\ Has(h.owner, request.body.token)
    THEN [h EXCEPT !.secret = Put(h.secret, Get(h.owner, request.body.token),
                                  request.body.password)]
    ELSE h

\* mutant: a failed send fails the request
OnEmailSent_Fatal(emailSent, response) ==
    IF emailSent THEN response ELSE internalErrorResponse

\* if (!emailSent) console.warn(...): the handler goes on to its response
OnEmailSent(emailSent, response) == response

-----------------------------------------------------------------------------
(* app/api/auth/register/route.ts: POST                                     *)
(* token is what generateRandomToken returns and delivered whether the mail *)
(* transport accepts the message, should the handler get that far.          *)

\* mutant: create without a select returns the whole row
RegisterSelect_WholeRow(row) == row

\* select: {id, email, name, createdAt} of prisma.user.create
RegisterSelect(row) ==
    [id |-> row.id, email |-> row.email, name |-> row.name, createdAt |-> row.createdAt]

RegisterResult(d, clock, body, token, delivered) ==
    IF body = BadJson
    THEN [db |-> d, resp |-> internalErrorResponse, mail |-> NoMail, generated |-> FALSE]
    ELSE LET parsed == registerSchema(body) IN
    IF ~parsed.success
    THEN [db |-> d, resp |-> validationErrorResponse(parsed.errors), mail |-> NoMail,
          generated |-> FALSE]
    ELSE IF FindByEmail(d, parsed.data.email) # NullObj
    THEN [db |-> d, resp |-> conflictResponse("Email already registered"), mail |-> NoMail,
          generated |-> FALSE]
    ELSE LET row == NewUser(d, clock,
                       [email |-> parsed.data.email,
                        password |-> HashPassword(parsed.data.password),
                        name |-> IF parsed.data.fullName = Absent
                                 THEN Null ELSE parsed.data.fullName,
                        emailVerificationToken |-> token,
                        emailVerificationExpires |->
                            getTokenExpirationTime(clock, VERIFICATION_HOURS)])
         IN  IF CreateViolatesUnique(d, row)
             THEN [db |-> d, resp |-> internalErrorResponse, mail |-> NoMail,
                   generated |-> TRUE]
             ELSE [db |-> Append(d, row),
                   resp |-> OnEmailSent(delivered, successResponse(
                       [user |-> RegisterSelect(row),
                        message |-> "Registration successful. Please check your email to verify your account."],
                       "User registered successfully", 201)),
                   mail |-> [kind |-> "verification", to |-> parsed.data.email,
                             token |-> token, delivered |-> delivered],
                   generated |-> TRUE]

\* candidates: the values generateRandomToken can return at this call
RegisterUsing(body, candidates) ==
    \E token \in candidates \cup {Null}, delivered \in BOOLEAN :
      \E r \in {RegisterResult(db, now, body, token, delivered)} :
      /\ r.generated <=> token # Null
      /\ r.mail = NoMail => delivered
      /\ Len(r.db) <= MaxAccounts
      /\ db' = r.db
      /\ resp' = r.resp
      /\ mail' = r.mail
      /\ issued' = IF r.generated THEN issued \cup {token} ELSE issued
      /\ last' = [op |-> "register", body |-> body, at |-> now]
      /\ history' = Observe(history, last', r.resp, r.mail)
      /\ UNCHANGED <<now, ticks, consumed, gate, procVars>>

Register(body) == RegisterUsing(body, generateRandomToken(issued))

-----------------------------------------------------------------------------
(* app/api/auth/login/route.ts: POST *)

\* mutant: the handler forgets the verification check
IsEmailUnverified_Skipped(user) == FALSE

IsEmailUnverified(user) == ~user.isEmailVerified

\* mutant: the handler accepts any password
IsPasswordValid_Always(password, user) == TRUE

IsPasswordValid(password, user) == HashPassword(password) = user.password

LoginResult(d, clock, body, randomPart) ==
    IF body = BadJson
    THEN internalErrorResponse
    ELSE LET parsed == loginSchema(body) IN
    IF ~parsed.success
    THEN validationErrorResponse(parsed.errors)
    ELSE LET user == FindByEmail(d, parsed.data.email) IN
    IF user = NullObj
    THEN notFoundResponse("Invalid email or password")
    ELSE IF IsEmailUnverified(user)
    THEN unauthorizedResponse(
             "Email not verified. Please check your email for verification link.")
    ELSE IF ~IsPasswordValid(parsed.data.password, user)
    THEN unauthorizedResponse("Invalid email or password")
    ELSE successResponse(
             [token |-> generateToken(user.id, randomPart, clock),
              user |-> [id |-> user.id, email |-> user.email, name |-> user.name,
                        isEmailVerified |-> user.isEmailVerified,
                        twoFactorEnabled |-> user.twoFactorEnabled]],
             "Login successful", 200)

Login(body) ==
    \E randomPart \in RandomParts :
      /\ resp' = LoginResult(db, now, body, randomPart)
      /\ last' = [op |-> "login", body |-> body, at |-> now]
      /\ mail' = NoMail
      /\ UNCHANGED <<db, now, ticks, issued, consumed, history, gate, procVars>>

-----------------------------------------------------------------------------
(* app/api/auth/verify-email/route.ts: POST *)

VerifyEmailResult(d, clock, body, delivered) ==
    IF body = BadJson
    THEN [db |-> d, resp |-> internalErrorResponse, mail |-> NoMail]
    ELSE LET parsed == emailVerificationSchema(body) IN
    IF ~parsed.success
    THEN [db |-> d, resp |-> validationErrorResponse(parsed.errors), mail |-> NoMail]
    ELSE LET user == FindByVerificationToken(d, parsed.data.token) IN
    IF user = NullObj
    THEN [db |-> d, resp |-> notFoundResponse("Invalid verification token"),
          mail |-> NoMail]
    ELSE IF isTokenExpired(clock, user.emailVerificationExpires)
    THEN [db |-> d, resp |-> unauthorizedResponse("Verification token has expired"),
          mail |-> NoMail]
    ELSE [db |-> MarkVerified(d, user.id),
          resp |-> OnEmailSent(delivered,
                       successResponse([message |-> "Email verified successfully"],
                                       "Your email has been verified. You can now login.", 200)),
          mail |-> [kind |-> "welcome", to |-> user.email, token |-> Null,
                    delivered |-> delivered]]

VerifyEmail(body) ==
    \E delivered \in BOOLEAN :
      \E r \in {VerifyEmailResult(db, now, body, delivered)} :
      /\ r.mail = NoMail => delivered
      /\ db' = r.db
      /\ resp' = r.resp
      /\ mail' = r.mail
      /\ consumed' = Consume(consumed, body, r.resp)
      /\ last' = [op |-> "verifyEmail", body |-> body, at |-> now]
      /\ UNCHANGED <<now, ticks, issued, history, gate, procVars>>

-----------------------------------------------------------------------------
(* app/api/auth/forgot-password/route.ts: POST *)

ForgotPasswordResult(d, clock, body, token, delivered) ==
    IF body = BadJson
    THEN [db |-> d, resp |-> internalErrorResponse, mail |-> NoMail, generated |-> FALSE]
    ELSE LET parsed == passwordResetSchema(body) IN
    IF ~parsed.success
    THEN [db |-> d, resp |-> validationErrorResponse(parsed.errors), mail |-> NoMail,
          generated |-> FALSE]
    ELSE LET user == FindByEmail(d, parsed.data.email) IN
    IF user = NullObj
    THEN [db |-> d,
          resp |-> successResponse(
                       [message |-> "If user exists, password reset email has been sent"],
                       "Check your email for password reset instructions", 200),
          mail |-> NoMail, generated |-> FALSE]
    ELSE IF UpdateViolatesUnique(d, user.id, token)
    THEN [db |-> d, resp |-> internalErrorResponse, mail |-> NoMail, generated |-> TRUE]
    ELSE [db |-> StoreResetToken(d, user.id, token,
                                 getTokenExpirationTime(clock, RESET_HOURS)),
          resp |-> OnEmailSent(delivered, successResponse(
                       [message |-> "Password reset email sent"],
                       "Check your email for password reset instructions", 200)),
          mail |-> [kind |-> "passwordReset", to |-> parsed.data.email,
                    token |-> token, delivered |-> delivered],
          generated |-> TRUE]

ForgotPasswordUsing(body, candidates) ==
    \E token \in candidates \cup {Null}, delivered \in BOOLEAN :
      \E r \in {ForgotPasswordResult(db, now, body, token, delivered)} :
      /\ r.generated <=> token # Null
      /\ r.mail = NoMail => delivered
      /\ db' = r.db
      /\ resp' = r.resp
      /\ mail' = r.mail
      /\ issued' = IF r.generated THEN issued \cup {token} ELSE issued
      /\ last' = [op |-> "forgotPassword", body |-> body, at |-> now]
      /\ history' = Observe(history, last', r.resp, r.mail)
      /\ UNCHANGED <<now, ticks, consumed, gate, procVars>>

ForgotPassword(body) == ForgotPasswordUsing(body, generateRandomToken(issued))

-----------------------------------------------------------------------------
(* app/api/auth/reset-password/route.ts: POST *)

ResetPasswordResult(d, clock, body) ==
    IF body = BadJson
    THEN [db |-> d, resp |-> internalErrorResponse]
    ELSE LET parsed == resetPasswordSchema(body) IN
    IF ~parsed.success
    THEN [db |-> d, resp |-> validationErrorResponse(parsed.errors)]
    ELSE LET user == FindByResetToken(d, parsed.data.token) IN
    IF user = NullObj
    THEN [db |-> d, resp |-> notFoundResponse("Invalid password reset token")]
    ELSE IF isTokenExpired(clock, user.passwordResetExpires)
    THEN [db |-> d, resp |-> unauthorizedResponse("Password reset token has expired")]
    ELSE [db |-> SetPassword(d, user.id, HashPassword(parsed.data.password)),
          resp |-> successResponse(
                       [message |-> "Password reset successfully"],
                       "Your password has been reset. You can now login with your new password.",
                       200)]

ResetPassword(body) ==
    \E r \in {ResetPasswordResult(db, now, body)} :
      /\ db' = r.db
      /\ resp' = r.resp
      /\ mail' = NoMail
      /\ consumed' = Consume(consumed, body, r.resp)
      /\ last' = [op |-> "resetPassword", body |-> body, at |-> now]
      /\ history' = Observe(history, last', r.resp, NoMail)
      /\ UNCHANGED <<now, ticks, issued, gate, procVars>>

-----------------------------------------------------------------------------
(* middleware.ts: middleware *)

\* mutant: the gate treats every path as protected
IsProtectedRoute_Always(pathname) == TRUE

IsProtectedRoute(pathname) == \E route \in protectedRoutes : StartsWith(pathname, route)

\* mutant: the gate only checks that the header is there
MissingOrInvalidHeader_PresenceOnly(authHeader) == authHeader = Absent \/ authHeader = <<>>

\* !authHeader || !authHeader.startsWith('Bearer ')
MissingOrInvalidHeader(authHeader) ==
    authHeader = Absent \/ authHeader = <<>> \/ ~StartsWith(authHeader, BearerPrefix)

\* mutant: an x-user-id the client sent is kept
SetUserId_KeepsClient(headers, userId) ==
    IF headers.xUserId = Absent THEN [headers EXCEPT !.xUserId = userId] ELSE headers

\* new Headers(request.headers) with x-user-id set
SetUserId(headers, userId) == [headers EXCEPT !.xUserId = userId]

\* NextResponse.json({success: false, error}, {status: 401})
GateRefusal(error) == [status |-> 401, body |-> [success |-> FALSE, error |-> error]]

MiddlewareResult(request) ==
    IF IsProtectedRoute(request.pathname)
    THEN LET authHeader == request.headers.authorization IN
         IF MissingOrInvalidHeader(authHeader)
         THEN [forwarded |-> FALSE,
               response |-> GateRefusal("Missing or invalid authorization header")]
         ELSE LET token == Substring(authHeader, BEARER_PREFIX_LENGTH)
                  decoded == verifyToken(token)
              IN  IF decoded = NullObj
                  THEN [forwarded |-> FALSE,
                        response |-> GateRefusal("Invalid or expired token")]
                  ELSE [forwarded |-> TRUE,
                        headers |-> SetUserId(request.headers, decoded.userId)]
    ELSE [forwarded |-> TRUE, headers |-> request.headers]

Middleware(request) ==
    /\ gate' = [request |-> request, at |-> now, result |-> MiddlewareResult(request)]
    /\ UNCHANGED <<db, now, ticks, issued, consumed, history, last, resp, mail, procVars>>

-----------------------------------------------------------------------------
(* lib/request-helpers.ts *)

\* req.headers.get('x-user-id'): the value, or null
getUserIdFromRequest(headers) == IF headers.xUserId = Absent THEN Null ELSE headers.xUserId

-----------------------------------------------------------------------------
(* Concurrent requests: verify-email and reset-password, one store call per *)
(* step.  Each await of a handler is a point where another request can run. *)

Respond(p, response) ==
    /\ presp' = [presp EXCEPT ![p] = response]
    /\ pc' = [pc EXCEPT ![p] = "done"]
    /\ puser' = [puser EXCEPT ![p] = NullObj]

\* verify-email: req.json() and safeParse
BeginVerifyEmail(p, body) ==
    /\ pc[p] = "idle"
    /\ preq' = [preq EXCEPT ![p] = [op |-> "verifyEmail", body |-> body, at |-> now]]
    /\ IF body = BadJson
       THEN Respond(p, internalErrorResponse)
       ELSE LET parsed == emailVerificationSchema(body) IN
            IF ~parsed.success
            THEN Respond(p, validationErrorResponse(parsed.errors))
            ELSE /\ pc' = [pc EXCEPT ![p] = "verifyEmail:find"]
                 /\ UNCHANGED <<puser, presp>>
    /\ UNCHANGED <<db, now, ticks, issued, consumed, history, last, resp, mail, gate>>

\* verify-email: prisma.user.findUnique returns; the expiry check follows at once
FindVerifyEmail(p) ==
    /\ pc[p] = "verifyEmail:find"
    /\ LET user == FindByVerificationToken(db, preq[p].body.token) IN
       IF user = NullObj
       THEN Respond(p, notFoundResponse("Invalid verification token"))
       ELSE IF isTokenExpired(now, user.emailVerificationExpires)
       THEN Respond(p, unauthorizedResponse("Verification token has expired"))
       ELSE /\ puser' = [puser EXCEPT ![p] = user]
            /\ pc' = [pc EXCEPT ![p] = "verifyEmail:update"]
            /\ UNCHANGED presp
    /\ UNCHANGED <<db, now, ticks, issued, consumed, history, last, resp, mail, gate, preq>>

\* verify-email: prisma.user.update where id = user.id
UpdateVerifyEmail(p) ==
    /\ pc[p] = "verifyEmail:update"
    /\ db' = MarkVerified(db, puser[p].id)
    /\ pc' = [pc EXCEPT ![p] = "verifyEmail:send"]
    /\ UNCHANGED <<now, ticks, issued, consumed, history, last, resp, mail, gate, preq, puser,
                   presp>>

\* verify-email: sendWelcomeEmail returns, then the success response
SendWelcomeEmail(p) ==
    /\ pc[p] = "verifyEmail:send"
    /\ \E delivered \in BOOLEAN :
         LET response == OnEmailSent(delivered,
                             successResponse([message |-> "Email verified successfully"],
                                 "Your email has been verified. You can now login.", 200))
         IN  /\ mail' = [kind |-> "welcome", to |-> puser[p].email, token |-> Null,
                         delivered |-> delivered]
             /\ Respond(p, response)
             /\ consumed' = Consume(consumed, preq[p].body, response)
    /\ UNCHANGED <<db, now, ticks, issued, history, last, resp, gate, preq>>

\* reset-password: req.json() and safeParse
BeginResetPassword(p, body) ==
    /\ pc[p] = "idle"
    /\ preq' = [preq EXCEPT ![p] = [op |-> "resetPassword", body |-> body, at |-> now]]
    /\ IF body = BadJson
       THEN Respond(p, internalErrorResponse)
       ELSE LET parsed == resetPasswordSchema(body) IN
            IF ~parsed.success
            THEN Respond(p, validationErrorResponse(parsed.errors))
            ELSE /\ pc' = [pc EXCEPT ![p] = "resetPassword:find"]
                 /\ UNCHANGED <<puser, presp>>
    /\ UNCHANGED <<db, now, ticks, issued, consumed, history, last, resp, mail, gate>>

\* reset-password: prisma.user.findUnique returns; the expiry check follows at once
FindResetPassword(p) ==
    /\ pc[p] = "resetPassword:find"
    /\ LET user == FindByResetToken(db, preq[p].body.token) IN
       IF user = NullObj
       THEN Respond(p, notFoundResponse("Invalid password reset token"))
       ELSE IF isTokenExpired(now, user.passwordResetExpires)
       THEN Respond(p, unauthorizedResponse("Password reset token has expired"))
       ELSE /\ puser' = [puser EXCEPT ![p] = user]
            /\ pc' = [pc EXCEPT ![p] = "resetPassword:update"]
            /\ UNCHANGED presp
    /\ UNCHANGED <<db, now, ticks, issued, consumed, history, last, resp, mail, gate, preq>>

\* reset-password: prisma.user.update where id = user.id, then the success response
UpdateResetPassword(p) ==
    /\ pc[p] = "resetPassword:update"
    /\ db' = SetPassword(db, puser[p].id, HashPassword(preq[p].body.password))
    /\ LET response == successResponse(
                           [message |-> "Password reset successfully"],
                           "Your password has been reset. You can now login with your new password.",
                           200)
       IN  /\ Respond(p, response)
           /\ consumed' = Consume(consumed, preq[p].body, response)
           /\ history' = Observe(history, preq[p], response, NoMail)
    /\ UNCHANGED <<now, ticks, issued, last, resp, mail, gate, preq>>

\* register: req.json() and safeParse
BeginRegister(p, body) ==
    /\ pc[p] = "idle"
    /\ preq' = [preq EXCEPT ![p] = [op |-> "register", body |-> body, at |-> now]]
    /\ IF body = BadJson
       THEN Respond(p, internalErrorResponse)
       ELSE LET parsed == registerSchema(body) IN
            IF ~parsed.success
            THEN Respond(p, validationErrorResponse(parsed.errors))
            ELSE /\ pc' = [pc EXCEPT ![p] = "register:find"]
                 /\ UNCHANGED <<puser, presp>>
    /\ UNCHANGED <<db, now, ticks, issued, consumed, history, last, resp, mail, gate>>

\* register: prisma.user.findUnique by email returns
FindRegister(p) ==
    /\ pc[p] = "register:find"
    /\ IF FindByEmail(db, registerSchema(preq[p].body).data.email) # NullObj
       THEN Respond(p, conflictResponse("Email already registered"))
       ELSE /\ pc' = [pc EXCEPT ![p] = "register:create"]
            /\ UNCHANGED <<puser, presp>>
    /\ UNCHANGED <<db, now, ticks, issued, consumed, history, last, resp, mail, gate, preq>>

\* register: the hash, generateRandomToken and prisma.user.create; a unique
\* constraint makes create throw, and the handler's catch answers 500
CreateRegister(p) ==
    /\ pc[p] = "register:create"
    /\ Len(db) < MaxAccounts
    /\ \E token \in generateRandomToken(issued) :
         LET data == registerSchema(preq[p].body).data
             row == NewUser(db, now,
                        [email |-> data.email,
                         password |-> HashPassword(data.password),
                         name |-> IF data.fullName = Absent THEN Null ELSE data.fullName,
                         emailVerificationToken |-> token,
                         emailVerificationExpires |->
                             getTokenExpirationTime(now, VERIFICATION_HOURS)])
         IN  /\ issued' = issued \cup {token}
             /\ IF CreateViolatesUnique(db, row)
                THEN /\ Respond(p, internalErrorResponse)
                     /\ UNCHANGED db
                ELSE /\ db' = Append(db, row)
                     /\ puser' = [puser EXCEPT ![p] = row]
                     /\ pc' = [pc EXCEPT ![p] = "register:send"]
                     /\ UNCHANGED presp
    /\ UNCHANGED <<now, ticks, consumed, history, last, resp, mail, gate, preq>>

\* register: sendVerificationEmail returns, then the success response
SendVerificationEmail(p) ==
    /\ pc[p] = "register:send"
    /\ \E delivered \in BOOLEAN :
         LET response == OnEmailSent(delivered, successResponse(
                 [user |-> RegisterSelect(puser[p]),
                  message |-> "Registration successful. Please check your email to verify your account."],
                 "User registered successfully", 201))
             notification == [kind |-> "verification", to |-> puser[p].email,
                              token |-> puser[p].emailVerificationToken,
                              delivered |-> delivered]
         IN  /\ mail' = notification
             /\ Respond(p, response)
             /\ history' = Observe(history, preq[p], response, notification)
    /\ UNCHANGED <<db, now, ticks, issued, consumed, last, resp, gate, preq>>

-----------------------------------------------------------------------------
(* The clock *)

Tick(d) ==
    /\ ticks < MaxTicks
    /\ now' = now + d
    /\ ticks' = ticks + 1
    /\ UNCHANGED <<db, issued, consumed, history, last, resp, mail, gate, procVars>>

-----------------------------------------------------------------------------
(* Inputs *)

EmailA == <<"a", "@", "x">>
EmailAUpper == <<"A", "@", "x">>
EmailB == <<"b", "@", "x">>
EmailMalformed == <<"a", "x">>

PasswordOne == <<"P", "a", "s", "s", "w", "0", "r", "d">>
PasswordTwo == <<"S", "e", "c", "r", "e", "t", "1", "2">>
PasswordWeak == <<"p", "a", "s", "s">>

UnknownToken == <<"f">>

RegisterBodies ==
    {[email |-> EmailA, password |-> PasswordWeak, fullName |-> Absent]} \cup
    [email : {EmailA, EmailAUpper, EmailB}, password : {PasswordOne}, fullName : {Absent}]

LoginBodies ==
    {[email |-> EmailAUpper, password |-> PasswordOne],
     [email |-> EmailA, password |-> <<>>]} \cup
    [email : {EmailA, EmailB}, password : {PasswordOne, PasswordTwo}]

VerifyEmailBodies == [token : Tokens \cup {UnknownToken}]

ForgotPasswordBodies == [email : {EmailA, EmailB}]

ResetPasswordBodies ==
    {[token |-> UnknownToken, password |-> PasswordTwo]} \cup
    [token : Tokens, password : {PasswordOne, PasswordTwo}]

\* a clock advance that outlasts a reset token and leaves a verification token valid
TickSteps == {RESET_HOURS + 1}

PathTodo == <<"/", "a", "p", "i", "/", "t", "o", "d", "o">>
PathAuth == <<"/", "a", "p", "i", "/", "a", "u", "t", "h">>

\* the session token the client received in the latest login response, if any
HeldTokens ==
    IF last.op = "login" /\ resp.status = 200 THEN {resp.body.data.token} ELSE {}

\* a session token with its account-id segment replaced
ReplaceUserId(token, userId) ==
    LET parts == Split(token, "_")
    IN  userId \o <<"_">> \o parts[2] \o <<"_">> \o parts[3]

TamperedTokens ==
    {ReplaceUserId(t, u.id) : t \in HeldTokens, u \in {v \in Rows(db) : ~v.isEmailVerified}}

\* strings a client can make up without ever logging in
FabricatedToken == IdOf(1) \o <<"_", "f", "_", "0">>
MalformedTokens == {<<>>, <<"m", "a", "l">>, <<"_", "c", "_", "0">>}

\* an account id followed by an empty random part and an empty timestamp
EmptySegmentTokens == {IdOf(1) \o <<"_", "_">>}

LowerBearerPrefix == <<"b", "e", "a", "r", "e", "r", " ">>

AuthorizationHeaders ==
    {Absent, <<"B", "a", "s", "i", "c", " ", "x">>}
    \cup {BearerPrefix \o t : t \in HeldTokens \cup TamperedTokens \cup {FabricatedToken}
                                    \cup MalformedTokens \cup EmptySegmentTokens}
    \cup {LowerBearerPrefix \o t : t \in HeldTokens}
    \cup HeldTokens

GateRequests ==
    [pathname : {PathTodo},
     headers : [authorization : AuthorizationHeaders, xUserId : {Absent}]]
    \cup [pathname : {PathAuth},
          headers : [authorization : {Absent, BearerPrefix \o FabricatedToken},
                     xUserId : {Absent}]]

\* clock advances to the end of a session token's 7 days, and past it
SessionTickSteps == {SESSION_DAYS * 24, SESSION_DAYS * 24 + 1}

-----------------------------------------------------------------------------
(* Requests handled one after another *)

Next ==
    \/ \E body \in RegisterBodies : Register(body)
    \/ \E body \in LoginBodies : Login(body)
    \/ \E body \in VerifyEmailBodies : VerifyEmail(body)
    \/ \E body \in ForgotPasswordBodies : ForgotPassword(body)
    \/ \E body \in ResetPasswordBodies : ResetPassword(body)
    \/ \E d \in TickSteps : Tick(d)

Spec == Init /\ [][Next]_vars

-----------------------------------------------------------------------------
(* One client: it registers, verifies, logs in and calls gated routes *)

NextGate ==
    \/ \E body \in [email : {EmailA, EmailB}, password : {PasswordOne}, fullName : {Absent}] :
         Register(body)
    \/ \E body \in [token : Tokens] : VerifyEmail(body)
    \/ \E body \in [email : {EmailA}, password : {PasswordOne}] : Login(body)
    \/ \E request \in GateRequests : Middleware(request)
    \/ \E d \in SessionTickSteps : Tick(d)

SpecGate == Init /\ [][NextGate]_vars

-----------------------------------------------------------------------------
(* Two requests in flight at once: each process sends one request, at any  *)
(* moment, and its steps interleave with the other's                        *)

NextConc ==
    \/ \E body \in [email : {EmailA}, password : {PasswordOne}, fullName : {Absent}] :
         Register(body)
    \/ \E body \in [email : {EmailA}] : ForgotPassword(body)
    \/ \E p \in Procs, body \in [token : Tokens] : BeginVerifyEmail(p, body)
    \/ \E p \in Procs : FindVerifyEmail(p)
    \/ \E p \in Procs : UpdateVerifyEmail(p)
    \/ \E p \in Procs : SendWelcomeEmail(p)
    \/ \E p \in Procs, body \in [token : Tokens, password : {PasswordOne, PasswordTwo}] :
         BeginResetPassword(p, body)
    \/ \E p \in Procs : FindResetPassword(p)
    \/ \E p \in Procs : UpdateResetPassword(p)

SpecConc == Init /\ [][NextConc]_vars

-----------------------------------------------------------------------------
(* The gate in front of a store whose one account has any of several ids:  *)
(* the id is a string the store assigns, nothing in the handlers limits its *)
(* characters                                                               *)

AccountIds == {IdOf(1), <<"u", "-", "1">>, <<"u", "_", "1">>}

\* a verified account for EmailA with PasswordOne, under the given id
StoredAccount(id) ==
    [MarkVerified(<<NewUser(<<>>, 0,
                      [email |-> EmailA,
                       password |-> HashPassword(PasswordOne),
                       name |-> Null,
                       emailVerificationToken |-> ToDigits(1),
                       emailVerificationExpires |->
                           getTokenExpirationTime(0, VERIFICATION_HOURS)])>>,
                  IdOf(1))[1]
        EXCEPT !.id = id]

InitIds ==
    /\ db \in {<<StoredAccount(id)>> : id \in AccountIds}
    /\ now = 0
    /\ ticks = 0
    /\ issued = {ToDigits(1)}
    /\ consumed = [t \in Tokens |-> IF t = ToDigits(1) THEN 1 ELSE 0]
    /\ history = [secret |-> {<<EmailA, PasswordOne>>}, owner |-> {<<ToDigits(1), EmailA>>}]
    /\ last = NoRequest
    /\ resp = NoResponse
    /\ mail = NoMail
    /\ gate = NoGate
    /\ pc = [p \in Procs |-> "idle"]
    /\ preq = [p \in Procs |-> NoRequest]
    /\ puser = [p \in Procs |-> NullObj]
    /\ presp = [p \in Procs |-> NoResponse]

NextIds ==
    \/ \E body \in [email : {EmailA}, password : {PasswordOne, PasswordTwo}] : Login(body)
    \/ \E request \in GateRequests : Middleware(request)
    \/ \E d \in SessionTickSteps : Tick(d)

SpecIds == InitIds /\ [][NextIds]_vars

-----------------------------------------------------------------------------
(* One account and the clock: tokens presented at, and past, their expiry *)

\* clock advances to the last valid instant of each kind of token, and past it
ExpiryTickSteps ==
    {RESET_HOURS, RESET_HOURS + 1, VERIFICATION_HOURS, VERIFICATION_HOURS + 1}

NextExpiry ==
    \/ \E body \in [email : {EmailA}, password : {PasswordOne}, fullName : {Absent}] :
         Register(body)
    \/ \E body \in [token : Tokens] : VerifyEmail(body)
    \/ \E body \in [email : {EmailA}] : ForgotPassword(body)
    \/ \E body \in [token : Tokens, password : {PasswordTwo}] : ResetPassword(body)
    \/ \E d \in ExpiryTickSteps : Tick(d)

SpecExpiry == Init /\ [][NextExpiry]_vars

-----------------------------------------------------------------------------
(* A generator that may repeat itself: randomBytes checks nothing, so here  *)
(* generateRandomToken may return any value, one already stored included    *)

NextCollide ==
    \/ \E body \in [email : {EmailA, EmailB}, password : {PasswordOne}, fullName : {Absent}] :
         RegisterUsing(body, Tokens)
    \/ \E body \in [email : {EmailA, EmailB}] : ForgotPasswordUsing(body, Tokens)

SpecCollide == Init /\ [][NextCollide]_vars

-----------------------------------------------------------------------------
(* Two register requests in flight at once *)

RaceRegisterBodies ==
    [email : {EmailA, EmailAUpper}, password : {PasswordOne, PasswordTwo}, fullName : {Absent}]

NextRace ==
    \/ \E p \in Procs, body \in RaceRegisterBodies : BeginRegister(p, body)
    \/ \E p \in Procs : FindRegister(p)
    \/ \E p \in Procs : CreateRegister(p)
    \/ \E p \in Procs : SendVerificationEmail(p)

SpecRace == Init /\ [][NextRace]_vars

-----------------------------------------------------------------------------
(* forgot-password while reset-password requests are in flight, for one     *)
(* verified account                                                         *)

\* the verification token the stored account was registered with: used up
\* before, and none of the values generated from now on
PriorToken == <<"0">>

InitOverlap ==
    /\ db = <<StoredAccount(IdOf(1))>>
    /\ now = 0
    /\ ticks = 0
    /\ issued = {PriorToken}
    /\ consumed = [t \in Tokens |-> 0]
    /\ history = [secret |-> {<<EmailA, PasswordOne>>}, owner |-> {<<PriorToken, EmailA>>}]
    /\ last = NoRequest
    /\ resp = NoResponse
    /\ mail = NoMail
    /\ gate = NoGate
    /\ pc = [p \in Procs |-> "idle"]
    /\ preq = [p \in Procs |-> NoRequest]
    /\ puser = [p \in Procs |-> NullObj]
    /\ presp = [p \in Procs |-> NoResponse]

NextOverlap ==
    \/ \E body \in [email : {EmailA}] : ForgotPasswordUsing(body, Tokens \ issued)
    \/ \E p \in Procs, body \in [token : Tokens, password : {PasswordTwo}] :
         BeginResetPassword(p, body)
    \/ \E p \in Procs : FindResetPassword(p)
    \/ \E p \in Procs : UpdateResetPassword(p)

SpecOverlap == InitOverlap /\ [][NextOverlap]_vars

-----------------------------------------------------------------------------
(* One account that lets its verification token expire, and every route     *)
(* tried on it afterwards                                                   *)

StaleRegisterBodies ==
    [email : {EmailA, EmailAUpper}, password : {PasswordOne}, fullName : {Absent}]

StaleLoginBodies == [email : {EmailA}, password : {PasswordOne, PasswordTwo}]

\* a clock advance that outlasts a verification token
StaleTickSteps == {VERIFICATION_HOURS + 1}

NextStale ==
    \/ \E body \in StaleRegisterBodies : Register(body)
    \/ \E body \in StaleLoginBodies : Login(body)
    \/ \E body \in [token : Tokens] : VerifyEmail(body)
    \/ \E body \in [email : {EmailA}] : ForgotPassword(body)
    \/ \E body \in [token : Tokens, password : {PasswordTwo}] : ResetPassword(body)
    \/ \E d \in StaleTickSteps : Tick(d)

SpecStale == Init /\ [][NextStale]_vars

-----------------------------------------------------------------------------
(* The gate and the headers a client sends: any path, any Authorization    *)
(* header and an x-user-id header of the client's own making                *)

PathNearMiss == <<"/", "a", "p", "i", "/", "a">>

HeaderRequests ==
    [pathname : {PathTodo, PathAuth, PathNearMiss},
     headers : [authorization : {Absent, <<"B", "a", "s", "i", "c", " ", "x">>,
                                 BearerPrefix \o <<"m", "a", "l">>}
                                \cup {BearerPrefix \o t : t \in HeldTokens},
                xUserId : {Absent, IdOf(1), IdOf(2)}]]

NextHeaders ==
    \/ \E body \in [email : {EmailA}, password : {PasswordOne}] : Login(body)
    \/ \E request \in HeaderRequests : Middleware(request)

SpecHeaders == InitIds /\ [][NextHeaders]_vars

-----------------------------------------------------------------------------
(* Requests whose body is not JSON or fails the route's schema, next to one *)
(* good request per route                                                   *)

RegisterBadBodies ==
    {BadJson,
     [email |-> EmailMalformed, password |-> PasswordOne, fullName |-> Absent],
     [email |-> EmailA, password |-> PasswordWeak, fullName |-> Absent],
     [email |-> EmailB, password |-> PasswordOne, fullName |-> <<"x">>]}

LoginBadBodies ==
    {BadJson,
     [email |-> EmailMalformed, password |-> PasswordOne],
     [email |-> EmailA, password |-> <<>>]}

VerifyEmailBadBodies == {BadJson, [token |-> <<>>], [token |-> Absent]}

ForgotPasswordBadBodies == {BadJson, [email |-> EmailMalformed], [email |-> Absent]}

ResetPasswordBadBodies ==
    {BadJson,
     [token |-> <<>>, password |-> PasswordTwo],
     [token |-> Absent, password |-> PasswordTwo]}
    \cup [token : Tokens, password : {PasswordWeak}]

NextInput ==
    \/ \E body \in RegisterBadBodies
                     \cup {[email |-> EmailA, password |-> PasswordOne, fullName |-> Absent]} :
         Register(body)
    \/ \E body \in LoginBadBodies \cup {[email |-> EmailA, password |-> PasswordOne]} :
         Login(body)
    \/ \E body \in VerifyEmailBadBodies \cup [token : Tokens] : VerifyEmail(body)
    \/ \E body \in ForgotPasswordBadBodies \cup {[email |-> EmailA]} : ForgotPassword(body)
    \/ \E body \in ResetPasswordBadBodies \cup [token : Tokens, password : {PasswordTwo}] :
         ResetPassword(body)

SpecInput == Init /\ [][NextInput]_vars

\* schema.safeParse(body) of the route
SchemaOf(op, body) ==
    CASE op = "register" -> registerSchema(body)
      [] op = "login" -> loginSchema(body)
      [] op = "verifyEmail" -> emailVerificationSchema(body)
      [] op = "forgotPassword" -> passwordResetSchema(body)
      [] op = "resetPassword" -> resetPasswordSchema(body)

\* the body cannot be parsed, or the route's schema refuses it
InputRejected(op, body) == body = BadJson \/ ~SchemaOf(op, body).success

-----------------------------------------------------------------------------
(* Properties *)

AllLoginBodies == LoginBodies \cup {BadJson}

EmailNotVerifiedResponse ==
    unauthorizedResponse("Email not verified. Please check your email for verification link.")

InvalidCredentialResponse == unauthorizedResponse("Invalid email or password")

\* the account a login body names, or NullObj
LoginTarget(body) ==
    IF body = BadJson \/ ~IsString(body.email) THEN NullObj
    ELSE FindByEmail(db, Trim(ToLowerCase(body.email)))

\* C1: login for an account whose emailVerified is false never returns a session
\* token; when the body passes the schema the answer is EmailNotVerified (401),
\* whether the password is the account's or not.
C1_UnverifiedLoginRefused ==
    /\ \A body \in AllLoginBodies, randomPart \in RandomParts :
         \A user \in {LoginTarget(body)}, result \in {LoginResult(db, now, body, randomPart)} :
             (user # NullObj /\ ~user.isEmailVerified) =>
               /\ result.status # 200
               /\ "data" \notin DOMAIN result.body
               /\ loginSchema(body).success => result = EmailNotVerifiedResponse
    /\ (last.op = "login" /\ LoginTarget(last.body) # NullObj
          /\ ~LoginTarget(last.body).isEmailVerified) =>
         /\ "data" \notin DOMAIN resp.body
         /\ loginSchema(last.body).success => resp = EmailNotVerifiedResponse

\* an unverified account was sent its own password and got EmailNotVerified
C1_Witness ==
    /\ last.op = "login"
    /\ LoginTarget(last.body) # NullObj
    /\ ~LoginTarget(last.body).isEmailVerified
    /\ HashPassword(last.body.password) = LoginTarget(last.body).password
    /\ resp = EmailNotVerifiedResponse

\* C2: one request after another, a token that has earned a success response of
\* verify-email or reset-password is gone: every later verify-email or
\* reset-password with it answers TokenNotFound (404) and leaves the store,
\* the credential included, as it is.
C2_TokensSingleUse ==
    \A t \in Tokens :
      consumed[t] >= 1 =>
        /\ \A delivered \in BOOLEAN :
             \A r \in {VerifyEmailResult(db, now, [token |-> t], delivered)} :
                 r.resp = notFoundResponse("Invalid verification token") /\ r.db = db
        /\ \A password \in {PasswordOne, PasswordTwo} :
             \A r \in {ResetPasswordResult(db, now, [token |-> t, password |-> password])} :
                 r.resp = notFoundResponse("Invalid password reset token") /\ r.db = db
        /\ (last.op \in {"verifyEmail", "resetPassword"} /\ last.body.token = t
              /\ resp.status # 200) => resp.status = 404

\* a reset token was replayed after it had been used, and refused with 404
C2_Witness ==
    /\ last.op = "resetPassword"
    /\ last.body.token \in Tokens
    /\ consumed[last.body.token] = 1
    /\ resp = notFoundResponse("Invalid password reset token")

\* C3: of two concurrent requests that present the same verification or reset
\* token at most one gets a success response.
C3_TokenConsumedOnce == \A t \in Tokens : consumed[t] <= 1

\* C6: the login response for an email with no account is the same, status and
\* body, as the one for a verified account and a wrong password.
C6_LoginHidesUnknownEmail ==
    \A unknown \in LoginBodies, wrong \in LoginBodies, randomPart \in RandomParts :
      LET user == LoginTarget(wrong) IN
      ( /\ loginSchema(unknown).success
        /\ loginSchema(wrong).success
        /\ unknown.password = wrong.password
        /\ LoginTarget(unknown) = NullObj
        /\ user # NullObj
        /\ user.isEmailVerified
        /\ HashPassword(wrong.password) # user.password )
      => LoginResult(db, now, unknown, randomPart) = LoginResult(db, now, wrong, randomPart)

\* C7: forgot-password answers with the same envelope (status, message, data)
\* whether or not the well-formed email belongs to an account.
C7_ForgotPasswordSameEnvelope ==
    \A known \in ForgotPasswordBodies, unknown \in ForgotPasswordBodies,
       token \in Tokens, delivered \in BOOLEAN :
      ( /\ FindByEmail(db, Trim(ToLowerCase(known.email))) # NullObj
        /\ FindByEmail(db, Trim(ToLowerCase(unknown.email))) = NullObj )
      => ForgotPasswordResult(db, now, known, token, delivered).resp
           = ForgotPasswordResult(db, now, unknown, token, delivered).resp

\* C8: for a verified account, login succeeds exactly with the password last
\* given for it (at register or by the latest successful reset-password): the
\* success carries a session token that resolves to the account's id, every
\* other password gets InvalidCredential (401), and login writes no account.
C8_LoginMatchesCurrentPassword ==
    /\ [](\A body \in LoginBodies, randomPart \in RandomParts :
            \A user \in {LoginTarget(body)}, result \in {LoginResult(db, now, body, randomPart)} :
                (loginSchema(body).success /\ user # NullObj /\ user.isEmailVerified) =>
                  /\ Has(history.secret, user.email)
                  /\ IF body.password = Get(history.secret, user.email)
                     THEN /\ result.status = 200
                          /\ result.body.success
                          /\ verifyToken(result.body.data.token) = [userId |-> user.id]
                          /\ result.body.data.user.id = user.id
                     ELSE result = InvalidCredentialResponse)
    /\ [][\A body \in LoginBodies :
            (last' = [op |-> "login", body |-> body, at |-> now] /\ Login(body)) => db' = db]_vars

\* a login succeeded with a password that was set by reset-password
C8_Witness ==
    /\ last.op = "login"
    /\ resp.status = 200
    /\ last.body.password = PasswordTwo
    /\ \E t \in Tokens : consumed[t] = 1 /\ Has(history.owner, t)
                         /\ Get(history.owner, t) = resp.body.data.user.email

\* C9: register with a valid email whose lower-cased form is the email of a
\* stored account answers DuplicateEmail (409), creates and changes no account
\* and sends nothing; no two stored accounts have the same lower-cased email.
C9_DuplicateEmailRefused ==
    /\ \A body \in RegisterBodies, token \in Tokens, delivered \in BOOLEAN :
         ( /\ registerSchema(body).success
           /\ \E u \in Rows(db) : u.email = Trim(ToLowerCase(body.email)) )
         => RegisterResult(db, now, body, token, delivered)
              = [db |-> db, resp |-> conflictResponse("Email already registered"),
                 mail |-> NoMail, generated |-> FALSE]
    /\ \A i, j \in 1..Len(db) :
         ToLowerCase(db[i].email) = ToLowerCase(db[j].email) => i = j
    /\ (last.op = "register" /\ resp.status = 409) => mail = NoMail

\* the upper-case spelling of a registered email was refused with 409
C9_Witness ==
    /\ last.op = "register"
    /\ last.body.email = EmailAUpper
    /\ \E u \in Rows(db) : u.email = EmailA
    /\ resp = conflictResponse("Email already registered")
    /\ mail = NoMail

\* the token a gated request presents: what follows 'Bearer '
PresentedToken(request) == Substring(request.headers.authorization, BEARER_PREFIX_LENGTH)

\* every session token login can have issued up to now: login issues one only
\* for a verified account, made of its id, a random part and the hour of issue
IssuableByLogin ==
    {generateToken(u.id, randomPart, t) :
        u \in {v \in Rows(db) : v.isEmailVerified}, randomPart \in RandomParts, t \in 0..now}

GateForwardedProtected ==
    /\ gate.request # NullObj
    /\ IsProtectedRoute(gate.request.pathname)
    /\ gate.result.forwarded

\* C4: the gate forwards a request to a protected path only when its bearer
\* token is one that login issued; a tampered or made-up token gets 401 and no
\* account id is injected for it.
C4_TamperedTokenRejected ==
    GateForwardedProtected => PresentedToken(gate.request) \in IssuableByLogin

\* C5: a session token that login issued is refused by the gate once more than
\* 7 days have passed since it was issued.
C5_SessionExpiresAfterSevenDays ==
    ( /\ GateForwardedProtected
      /\ PresentedToken(gate.request) \in HeldTokens )
    => gate.at <= last.at + SESSION_DAYS * 24

\* C10: a request to a protected path with no Authorization header, or with one
\* that does not start with 'Bearer ', is answered 401 by the gate, is not
\* forwarded, and gets no account id injected.
C10_MissingHeaderRefused ==
    /\ \A request \in GateRequests :
         ( /\ IsProtectedRoute(request.pathname)
           /\ \/ request.headers.authorization = Absent
              \/ ~StartsWith(request.headers.authorization, BearerPrefix) )
         => LET result == MiddlewareResult(request)
            IN  /\ ~result.forwarded
                /\ result.response.status = 401
                /\ ~result.response.body.success
                /\ "headers" \notin DOMAIN result
    /\ ( /\ gate.request # NullObj
         /\ IsProtectedRoute(gate.request.pathname)
         /\ \/ gate.request.headers.authorization = Absent
            \/ ~StartsWith(gate.request.headers.authorization, BearerPrefix) )
       => /\ ~gate.result.forwarded
          /\ gate.result.response.status = 401
          /\ "headers" \notin DOMAIN gate.result

\* a session token sent as 'bearer <token>' was refused with 401
C10_Witness ==
    /\ gate.request # NullObj
    /\ IsProtectedRoute(gate.request.pathname)
    /\ \E t \in HeldTokens : gate.request.headers.authorization = LowerBearerPrefix \o t
    /\ ~gate.result.forwarded
    /\ gate.result.response = GateRefusal("Missing or invalid authorization header")

\* the gate has handled a request to a protected path that carried 'Bearer '
\* followed by the session token of the latest login, within 7 days of it
GateGotHeldToken ==
    /\ gate.request # NullObj
    /\ IsProtectedRoute(gate.request.pathname)
    /\ gate.request.headers.authorization # Absent
    /\ StartsWith(gate.request.headers.authorization, BearerPrefix)
    /\ PresentedToken(gate.request) \in HeldTokens
    /\ gate.at >= last.at
    /\ gate.at <= last.at + SESSION_DAYS * 24

\* C11: the session token login issued for an account validates to that
\* account's id, whatever characters the id has, and a gated request carrying
\* it unexpired is forwarded with that id injected.
C11_SessionTokenRoundTrip ==
    /\ \A t \in HeldTokens : verifyToken(t) = [userId |-> resp.body.data.user.id]
    /\ GateGotHeldToken =>
         /\ gate.result.forwarded
         /\ gate.result.headers.xUserId = resp.body.data.user.id

\* C12: a token that is empty or lacks the structure of an issued token (no
\* separators, an empty account-id segment, an empty random part and
\* timestamp) is answered 401 'Invalid or expired token' by the gate and not
\* forwarded.
C12_MalformedTokenRefused ==
    ( /\ gate.request # NullObj
      /\ IsProtectedRoute(gate.request.pathname)
      /\ gate.request.headers.authorization # Absent
      /\ StartsWith(gate.request.headers.authorization, BearerPrefix)
      /\ PresentedToken(gate.request) \in MalformedTokens \cup EmptySegmentTokens )
    => gate.result = [forwarded |-> FALSE,
                      response |-> GateRefusal("Invalid or expired token")]

VerificationExpiredResponse == unauthorizedResponse("Verification token has expired")

ResetExpiredResponse == unauthorizedResponse("Password reset token has expired")

C14_TokenAndExpiryPaired ==
    \A u \in Rows(db) :
      /\ u.emailVerificationToken = Null <=> u.emailVerificationExpires = NullTime
      /\ u.passwordResetToken = Null <=> u.passwordResetExpires = NullTime

\* forgot-password has just stored a reset token for an account that has
\* already used up its verification token
C14_Witness ==
    /\ last.op = "forgotPassword"
    /\ mail # NoMail
    /\ \E u \in Rows(db) : /\ u.passwordResetToken = mail.token
                           /\ u.passwordResetExpires = now + RESET_HOURS
                           /\ u.emailVerificationToken = Null
                           /\ u.emailVerificationExpires = NullTime

\* C15: no two accounts hold the same non-null verification token, and no two
\* hold the same non-null reset token, although the generator checks nothing:
\* a write of a value another account holds is refused by the store, the
\* handler answers 500 and the store is as before.
C15_TokensUniqueAcrossAccounts ==
    /\ \A i, j \in 1..Len(db) :
         i # j =>
           /\ db[i].emailVerificationToken # Null
                => db[i].emailVerificationToken # db[j].emailVerificationToken
           /\ db[i].passwordResetToken # Null
                => db[i].passwordResetToken # db[j].passwordResetToken
    /\ \A t \in Tokens :
         /\ Cardinality({u \in Rows(db) : u.emailVerificationToken = t}) <= 1
         /\ Cardinality({u \in Rows(db) : u.passwordResetToken = t}) <= 1
    /\ (last.op \in {"register", "forgotPassword"} /\ resp = internalErrorResponse) =>
         mail = NoMail

\* register drew a token another account holds and was answered 500
C15_Witness ==
    /\ last.op = "register"
    /\ resp = internalErrorResponse
    /\ Len(db) = 1
    /\ db[1].emailVerificationToken # Null
    /\ db[1].email # NormalizeEmail(last.body.email)

\* C16: only an account whose email is verified can have a password reset
\* started: an account holding a reset token is verified, and forgot-password
\* for an unverified account stores no token and sends no reset mail.
C16_ResetOnlyForVerified ==
    /\ \A u \in Rows(db) : u.passwordResetToken # Null => u.isEmailVerified
    /\ ( /\ last.op = "forgotPassword"
         /\ \E u \in Rows(db) : u.email = NormalizeEmail(last.body.email)
                                /\ ~u.isEmailVerified )
       => mail = NoMail

\* C17: for register, verify-email and forgot-password the response and the
\* stored accounts are the same whether the mail transport accepts the message
\* or fails; a failed send leaves the committed change in place and the
\* response is the success response, never 500.
C17_NotificationFailureNotFatal ==
    /\ \A body \in RegisterBodies, token \in Tokens :
         \A sent \in {RegisterResult(db, now, body, token, TRUE)},
            failed \in {RegisterResult(db, now, body, token, FALSE)} :
           failed.db = sent.db /\ failed.resp = sent.resp
    /\ \A body \in VerifyEmailBodies :
         \A sent \in {VerifyEmailResult(db, now, body, TRUE)},
            failed \in {VerifyEmailResult(db, now, body, FALSE)} :
           failed.db = sent.db /\ failed.resp = sent.resp
    /\ \A body \in ForgotPasswordBodies, token \in Tokens :
         \A sent \in {ForgotPasswordResult(db, now, body, token, TRUE)},
            failed \in {ForgotPasswordResult(db, now, body, token, FALSE)} :
           failed.db = sent.db /\ failed.resp = sent.resp
    /\ (mail # NoMail /\ ~mail.delivered) =>
         /\ resp.body.success
         /\ resp.status = IF last.op = "register" THEN 201 ELSE 200
         /\ \E u \in Rows(db) :
              /\ u.email = mail.to
              /\ last.op = "register" => u.emailVerificationToken = mail.token
              /\ last.op = "verifyEmail" => u.isEmailVerified
              /\ last.op = "forgotPassword" => u.passwordResetToken = mail.token

\* the reset mail could not be sent: the answer is 200 and the token is stored
C17_Witness ==
    /\ last.op = "forgotPassword"
    /\ mail # NoMail
    /\ ~mail.delivered
    /\ resp.status = 200
    /\ \E u \in Rows(db) : u.email = mail.to /\ u.passwordResetToken = mail.token

\* C18: forgot-password for an email no account has writes nothing to the
\* store (no row created or updated, no reset token) and sends nothing.
C18_UnknownEmailNoEffect ==
    /\ \A body \in ForgotPasswordBodies, token \in Tokens \cup {Null}, delivered \in BOOLEAN :
         (\A u \in Rows(db) : u.email # Trim(ToLowerCase(body.email))) =>
           \A r \in {ForgotPasswordResult(db, now, body, token, delivered)} :
             r.db = db /\ r.mail = NoMail /\ ~r.generated
    /\ ( /\ last.op = "forgotPassword"
         /\ \A u \in Rows(db) : u.email # Trim(ToLowerCase(last.body.email)) )
       => mail = NoMail /\ resp.status = 200

\* forgot-password for b@x while only a@x is stored: nothing sent, a@x has no
\* reset token
C18_Witness ==
    /\ last.op = "forgotPassword"
    /\ last.body.email = EmailB
    /\ Len(db) = 1
    /\ db[1].email = EmailA
    /\ db[1].passwordResetToken = Null
    /\ mail = NoMail
    /\ resp.status = 200

\* C19: a new account is unverified; only a successful verify-email with the
\* account's token sets isEmailVerified; once true it stays true in every
\* later step.
C19_VerifiedIsPermanent ==
    [][ /\ \A i \in 1..Len(db) :
             /\ db[i].isEmailVerified => db'[i].isEmailVerified
             /\ (~db[i].isEmailVerified /\ db'[i].isEmailVerified) =>
                  /\ last'.op = "verifyEmail"
                  /\ resp'.status = 200
                  /\ last'.body.token = db[i].emailVerificationToken
        /\ \A i \in (Len(db) + 1)..Len(db') : ~db'[i].isEmailVerified ]_vars

\* a verified account has had its password reset and is still verified
C19_Witness ==
    /\ last.op = "resetPassword"
    /\ resp.status = 200
    /\ \E u \in Rows(db) : /\ u.isEmailVerified
                           /\ Has(history.owner, last.body.token)
                           /\ u.email = Get(history.owner, last.body.token)

\* C20: a stored password changes only in a successful reset-password step,
\* for the account that holds the presented token and to the hash of the
\* presented password; every other step leaves every stored password as it is.
C20_CredentialOnlyByReset ==
    [][ \A i \in 1..Len(db) :
          db'[i].password # db[i].password =>
            /\ last'.op = "resetPassword"
            /\ resp'.status = 200
            /\ db[i].passwordResetToken = last'.body.token
            /\ db'[i].password = HashPassword(last'.body.password) ]_vars

\* a register attempt for an email whose password had been reset was refused,
\* and the account still has the password of the reset
C20_Witness ==
    /\ last.op = "register"
    /\ resp.status = 409
    /\ \E u \in Rows(db) : /\ u.email = Trim(ToLowerCase(last.body.email))
                           /\ u.password = HashPassword(PasswordTwo)
                           /\ last.body.password # PasswordTwo

\* interface ApiResponse of a failure: success is false and message is there
IsFailureEnvelope(body) ==
    /\ "success" \in DOMAIN body
    /\ ~body.success
    /\ "message" \in DOMAIN body

\* C21: every failure response, of an auth route (status 400 and above) or of
\* the gate (401), has success = false and a message string.
C21_FailureEnvelope ==
    /\ resp.status >= 400 => IsFailureEnvelope(resp.body)
    /\ (gate.result # NullObj /\ ~gate.result.forwarded) =>
         /\ gate.result.response.status = 401
         /\ IsFailureEnvelope(gate.result.response.body)

\* C22: a request to an auth route whose body cannot be parsed or fails the
\* route's schema is answered with status 400, writes nothing to the store,
\* generates no token and sends no notification.
C22_BadInputIsValidationFailed ==
    [][ (last'.op # "none" /\ gate' = gate /\ ticks' = ticks
           /\ InputRejected(last'.op, last'.body)) =>
          /\ resp'.status = 400
          /\ db' = db
          /\ issued' = issued
          /\ mail' = NoMail ]_vars

\* the User columns that hold strings
StringColumns == {"id", "email", "name", "password", "emailVerificationToken",
                  "passwordResetToken"}

\* the columns no response may carry
SecretColumns == {"password", "emailVerificationToken", "passwordResetToken"}

\* the user object of a response body, if it has one
ResponseUser(body) ==
    IF "data" \in DOMAIN body /\ "user" \in DOMAIN body.data THEN body.data.user ELSE NullObj

\* every string value a response body carries besides the fixed texts of the
\* handlers: the session token and the string fields of the user object
ResponseValues(body) ==
    (IF "data" \in DOMAIN body /\ "token" \in DOMAIN body.data THEN {body.data.token} ELSE {})
    \cup {ResponseUser(body)[f] : f \in DOMAIN ResponseUser(body) \cap StringColumns}

\* C23: no response of an auth route, success or failure, carries a stored
\* credential, verification token or reset token of any account, neither as
\* a field of its user object nor as a value.
C23_ResponseHidesSecrets ==
    /\ DOMAIN ResponseUser(resp.body) \cap SecretColumns = {}
    /\ \A u \in Rows(db), v \in ResponseValues(resp.body) :
         /\ v # u.password
         /\ u.emailVerificationToken # Null => v # u.emailVerificationToken
         /\ u.passwordResetToken # Null => v # u.passwordResetToken
    /\ "details" \in DOMAIN resp.body =>
         \A detail \in resp.body.details :
           detail \in SchemaOf(last.op, last.body).errors

\* a login succeeded for an account that holds a reset token
C23_Witness ==
    /\ last.op = "login"
    /\ resp.status = 200
    /\ \E u \in Rows(db) : /\ u.id = resp.body.data.user.id
                           /\ u.passwordResetToken # Null
                           /\ ResponseValues(resp.body) # {}

\* C24: a request whose path starts with none of the protected prefixes is
\* forwarded by the gate with the headers it came with, whatever its
\* Authorization header is: no 401, no account id injected, no header changed.
C24_OtherPathsPassThrough ==
    /\ \A request \in HeaderRequests :
         ~IsProtectedRoute(request.pathname) =>
           MiddlewareResult(request) = [forwarded |-> TRUE, headers |-> request.headers]
    /\ (gate.request # NullObj /\ \A route \in protectedRoutes :
                                     ~StartsWith(gate.request.pathname, route)) =>
         /\ gate.result.forwarded
         /\ "response" \notin DOMAIN gate.result
         /\ gate.result.headers = gate.request.headers

\* a request to /api/auth with 'Bearer mal' and no x-user-id went through as it was
C24_Witness ==
    /\ gate.request # NullObj
    /\ gate.request.pathname = PathAuth
    /\ gate.request.headers.authorization = BearerPrefix \o <<"m", "a", "l">>
    /\ gate.result.forwarded
    /\ gate.result.headers.xUserId = Absent

\* C28: for every request to a protected path that the gate forwards, the
\* x-user-id the downstream handler reads is the account id verifyToken
\* resolved from the bearer token, whatever x-user-id the client sent.
C28_ClientUserIdOverridden ==
    /\ \A request \in HeaderRequests :
         \A result \in {MiddlewareResult(request)} :
           (IsProtectedRoute(request.pathname) /\ result.forwarded) =>
             getUserIdFromRequest(result.headers) = verifyToken(PresentedToken(request)).userId
    /\ GateForwardedProtected =>
         /\ getUserIdFromRequest(gate.result.headers)
              = verifyToken(PresentedToken(gate.request)).userId
         /\ PresentedToken(gate.request) \in HeldTokens =>
              getUserIdFromRequest(gate.result.headers) = resp.body.data.user.id

\* the client held the session token of one account and sent the id of
\* another as x-user-id: the handler reads the id of the token
C28_Witness ==
    /\ GateForwardedProtected
    /\ PresentedToken(gate.request) \in HeldTokens
    /\ gate.request.headers.xUserId = IdOf(2)
    /\ getUserIdFromRequest(gate.result.headers) = IdOf(1)

\* C25: isTokenExpired(null) is true; for an expiry t it is true exactly when
\* the clock is strictly later than t, so verify-email and reset-password
\* still accept a token presented at its expiry instant.
C25_ExpiryIsStrict ==
    /\ isTokenExpired(now, NullTime)
    /\ \A t \in 0..(now + VERIFICATION_HOURS) : isTokenExpired(now, t) <=> now > t
    /\ \A u \in Rows(db) :
         /\ (u.emailVerificationToken # Null /\ u.emailVerificationExpires = now) =>
              \A r \in {VerifyEmailResult(db, now, [token |-> u.emailVerificationToken], TRUE)} :
                /\ r.resp.status = 200
                /\ r.db = MarkVerified(db, u.id)
         /\ (u.passwordResetToken # Null /\ u.passwordResetExpires = now) =>
              \A r \in {ResetPasswordResult(db, now, [token |-> u.passwordResetToken,
                                                      password |-> PasswordTwo])} :
                /\ r.resp.status = 200
                /\ r.db = SetPassword(db, u.id, HashPassword(PasswordTwo))
    /\ (last.op = "verifyEmail" /\ resp.status = 200) =>
         \E u \in Rows(db) : /\ u.email = mail.to
                             /\ last.at <= u.createdAt + VERIFICATION_HOURS

\* a verification token was presented exactly 24 hours after register and
\* the account is verified
C25_Witness ==
    /\ last.op = "verifyEmail"
    /\ resp.status = 200
    /\ \E u \in Rows(db) : /\ u.email = mail.to
                           /\ u.isEmailVerified
                           /\ last.at = u.createdAt + VERIFICATION_HOURS

\* C26: when register requests for one email overlap, one account exists for
\* the email afterwards, and each request that created none is answered with
\* DuplicateEmail (409).
C26_RacingRegisterGetsConflict ==
    /\ \A i, j \in 1..Len(db) : db[i].email = db[j].email => i = j
    /\ \A p \in Procs :
         (pc[p] = "done" /\ preq[p].op = "register" /\ presp[p].status # 201) =>
           /\ \E u \in Rows(db) : u.email = Trim(ToLowerCase(preq[p].body.email))
           /\ presp[p] = conflictResponse("Email already registered")

\* C27: a reset token stored on an account leaves it only by a later
\* forgot-password for that account, which replaces it, or by the update of a
\* reset-password request that presented this very token; a reset-password
\* that presented another token never clears it.
C27_ResetTokenSurvivesOlderReset ==
    [][ \A i \in 1..Len(db) :
          ( /\ db[i].passwordResetToken # Null
            /\ db'[i].passwordResetToken # db[i].passwordResetToken ) =>
            \/ /\ issued' # issued
               /\ last'.op = "forgotPassword"
               /\ mail' # NoMail
               /\ mail'.to = db[i].email
               /\ db'[i].passwordResetToken = mail'.token
            \/ \E p \in Procs :
                 /\ pc[p] = "resetPassword:update"
                 /\ pc'[p] = "done"
                 /\ preq[p].body.token = db[i].passwordResetToken ]_vars

\* C29: in every reachable state, for every account, isEmailVerified is true
\* exactly when emailVerificationToken is null.
C29_VerifiedIffNoToken ==
    \A u \in Rows(db) : u.isEmailVerified <=> u.emailVerificationToken = Null

\* one account is verified and holds no token, another is unverified and
\* holds the token it was mailed
C29_Witness ==
    /\ \E u \in Rows(db) : u.isEmailVerified /\ u.emailVerificationToken = Null
    /\ \E u \in Rows(db) : /\ ~u.isEmailVerified
                           /\ Has(history.owner, u.emailVerificationToken)
                           /\ Get(history.owner, u.emailVerificationToken) = u.email

\* the account is unverified and its verification token has expired
IsStale(u, clock) ==
    /\ ~u.isEmailVerified
    /\ u.emailVerificationToken # Null
    /\ u.emailVerificationExpires # NullTime
    /\ clock > u.emailVerificationExpires

\* C30: an account whose verification token has expired stays as it is: no
\* step of register, verify-email, login, forgot-password or reset-password
\* verifies it or gives it another verification token or expiry; register for
\* its email answers DuplicateEmail and login for it answers EmailNotVerified.
C30_ExpiredUnverifiedIsStuck ==
    /\ [](\A u \in Rows(db) : IsStale(u, now) =>
            /\ \A body \in StaleRegisterBodies, token \in Tokens :
                 RegisterResult(db, now, body, token, TRUE)
                   = [db |-> db, resp |-> conflictResponse("Email already registered"),
                      mail |-> NoMail, generated |-> FALSE]
            /\ \A body \in StaleLoginBodies, randomPart \in RandomParts :
                 LoginResult(db, now, body, randomPart) = EmailNotVerifiedResponse
            /\ (last.op = "register" /\ last.at > u.emailVerificationExpires) =>
                 resp = conflictResponse("Email already registered")
            /\ (last.op = "login" /\ last.at > u.emailVerificationExpires) =>
                 resp = EmailNotVerifiedResponse
            /\ (last.op = "verifyEmail" /\ last.at > u.emailVerificationExpires) =>
                 resp.status # 200)
    /\ [][ \A i \in 1..Len(db) : IsStale(db[i], now) =>
             /\ IsStale(db'[i], now')
             /\ db'[i].emailVerificationToken = db[i].emailVerificationToken
             /\ db'[i].emailVerificationExpires = db[i].emailVerificationExpires ]_vars

\* the account's token expired, its password was then reset through
\* forgot-password, and login with the new password answers EmailNotVerified
C30_Witness ==
    /\ last.op = "login"
    /\ last.body.password = PasswordTwo
    /\ resp = EmailNotVerifiedResponse
    /\ \E u \in Rows(db) : /\ IsStale(u, now)
                           /\ u.email = last.body.email
                           /\ u.password = HashPassword(PasswordTwo)

====
